---- MODULE Spec2Model ----
(***************************************************************************)
(* The ICMPv6 layer decoder of scalpel (src/layers/icmpv6.rs): one decoder *)
(* instance (struct ICMPv6) and its Layer::decode_bytes, applied to byte   *)
(* buffers.  Buffers are sequences of bytes 0..255; Rust's 0-based offset  *)
(* i is element i+1 of the sequence.                                       *)
(***************************************************************************)
EXTENDS Integers, Sequences, FiniteSets, TLC

VARIABLES
    self,    \* the decoder instance: icmp_type, code, checksum, rest_of_header
    bytes,   \* the buffer handed to the most recent decode_bytes call
    ret      \* how that call ended: Ok((None, decoded)), Err(TooShort), or a panic

vars == <<self, bytes, ret>>

----------------------------------------------------------------------------
(* Program constants *)

ICMPV6_HEADER_LENGTH == 8

ICMPV6_DESTINATION_UNREACHABLE == 1

ICMPV6_PACKET_TOO_BIG == 2

ICMPV6_TIME_EXCEEDED == 3

ICMPV6_ECHO_REQUEST == 128

ICMPV6_ECHO_REPLY == 129

ICMPV6_ROUTER_SOLICITATION == 133

ICMPV6_ROUTER_ADVERTISEMENT == 134

ICMPV6_NEIGHBOR_SOLICITATION == 135

ICMPV6_NEIGHBOR_ADVERTISEMENT == 136

ICMPV6_REDIRECT == 137

----------------------------------------------------------------------------
(* Bounds of the model *)

\* Longest buffer handed to decode_bytes: the 40 bytes of a Redirect plus one
\* trailing byte.
MaxLen == 41

----------------------------------------------------------------------------
(* Fixed-width arithmetic, as the code computes it *)

RECURSIVE BitOr(_, _)
\* a | b on non-negative integers
BitOr(a, b) ==
    IF a = 0 THEN b
    ELSE IF b = 0 THEN a
    ELSE (IF a % 2 = 1 \/ b % 2 = 1 THEN 1 ELSE 0) + 2 * BitOr(a \div 2, b \div 2)

RECURSIVE BitAnd(_, _)
\* a & b on non-negative integers
BitAnd(a, b) ==
    IF a = 0 \/ b = 0 THEN 0
    ELSE (IF a % 2 = 1 /\ b % 2 = 1 THEN 1 ELSE 0) + 2 * BitAnd(a \div 2, b \div 2)

\* (x as u16) << n : a 16-bit shift, bits shifted past bit 15 are lost
Shl16(x, n) == (x * (2 ^ n)) % 65536

\* x >> n on a u8
Shr8(x, n) == x \div (2 ^ n)

\* u8::from_be(x): a byte swap of a one-byte integer, on either endianness
U8FromBe(x) == x

\* (hi as u16) << 8 | (lo as u16)
U16FromBytes(hi, lo) == BitOr(Shl16(hi, 8), lo)

\* u32::from_be_bytes(s) for a 4-byte s.  The 32-bit value is kept as its two
\* 16-bit halves, value = hi * 65536 + lo (it does not fit TLC's integers).
U32FromBeBytes(s) ==
    [hi |-> U16FromBytes(s[1], s[2]), lo |-> U16FromBytes(s[3], s[4])]

\* bytes[i] for a 0-based offset i inside the buffer
At(b, i) == b[i + 1]

\* bytes[lo..hi] for 0-based lo and exclusive hi inside the buffer
Slice(b, lo, hi) == SubSeq(b, lo + 1, hi)

\* bytes[lo..hi] panics (slice index out of range) exactly when hi > len
SliceInRange(b, hi) == hi <= Len(b)

HexDigits ==
    << "0", "1", "2", "3", "4", "5", "6", "7",
       "8", "9", "a", "b", "c", "d", "e", "f" >>

\* hex::encode(bytes): two lowercase hex digits per byte, high nibble first
HexEncode(b) ==
    [i \in 1..(2 * Len(b)) |->
        IF i % 2 = 1 THEN HexDigits[(b[(i + 1) \div 2] \div 16) + 1]
        ELSE HexDigits[(b[i \div 2] % 16) + 1]]

\* <[u8] as TryInto<IPv6Address>>::try_into(..).unwrap() on a 16-byte slice:
\* the address holds the 16 bytes in order
IPv6AddressTryFrom(s) == s

----------------------------------------------------------------------------
(* The decoder instance *)

\* Icmpv6Type::default()
Icmpv6TypeDefault == [tag |-> "Empty"]

\* ICMPv6::default(), what ICMPv6::creator() boxes
ICMPv6Default ==
    [icmp_type |-> 0, code |-> 0, checksum |-> 0, rest_of_header |-> Icmpv6TypeDefault]

\* The value a match arm yields: the payload and `decoded`
ArmOk(payload, decoded) == [panic |-> FALSE, payload |-> payload, decoded |-> decoded]

\* The arm panicked on an out-of-range slice before yielding a value
ArmPanic == [panic |-> TRUE]

----------------------------------------------------------------------------
(* The arms of `match self.icmp_type` in decode_bytes.  Every arm runs with *)
(* at least ICMPV6_HEADER_LENGTH bytes in the buffer, so offsets 0..7 are   *)
(* in range; a slice that ends past the buffer panics.                      *)

\* An Echo Request arm that builds the EchoRequest variant
EchoRequestArmOwnVariant(b) ==
    ArmOk([tag |-> "EchoRequest",
           identifier |-> U16FromBytes(At(b, 4), At(b, 5)),
           sequence_number |-> U16FromBytes(At(b, 6), At(b, 7))], 8)

\* ICMPV6_ECHO_REQUEST => ... : builds Icmpv6Type::EchoReply
EchoRequestArm(b) ==
    LET identifier == U16FromBytes(At(b, 4), At(b, 5))
        sequence_number == U16FromBytes(At(b, 6), At(b, 7))
    IN  ArmOk([tag |-> "EchoReply",
               identifier |-> identifier,
               sequence_number |-> sequence_number], 8)

\* ICMPV6_ECHO_REPLY => ...
EchoReplyArm(b) ==
    LET identifier == U16FromBytes(At(b, 4), At(b, 5))
        sequence_number == U16FromBytes(At(b, 6), At(b, 7))
    IN  ArmOk([tag |-> "EchoReply",
               identifier |-> identifier,
               sequence_number |-> sequence_number], 8)

\* ICMPV6_PACKET_TOO_BIG => ... : bytes[4..8] is in range
PacketTooBigArm(b) ==
    LET mtu == U32FromBeBytes(Slice(b, 4, 8))
    IN  ArmOk([tag |-> "PacketSizeTooBig", mtu |-> mtu], 8)

\* ICMPV6_DESTINATION_UNREACHABLE | ICMPV6_TIME_EXCEEDED => ...
EmptyArm(b) == ArmOk([tag |-> "Empty"], 8)

\* A Router Advertisement arm that reads the two flags in the opposite order
RouterAdvertisementArmLsbFirst(b) ==
    IF ~SliceInRange(b, 12) \/ ~SliceInRange(b, 16) THEN ArmPanic
    ELSE ArmOk([tag |-> "RouterAdvertisement",
                cur_hop_limit |-> U8FromBe(At(b, 4)),
                flags |-> [managed_address_flag |-> BitAnd(Shr8(At(b, 5), 6), 1) = 1,
                           other_config |-> BitAnd(Shr8(At(b, 5), 7), 1) = 1],
                router_lifetime |-> U16FromBytes(At(b, 6), At(b, 7)),
                reachable_time |-> U32FromBeBytes(Slice(b, 8, 12)),
                retrans_timer |-> U32FromBeBytes(Slice(b, 12, 16))], 16)

\* ICMPV6_ROUTER_ADVERTISEMENT => ... : bytes[8..12] and bytes[12..16] panic
\* on a buffer shorter than 12, respectively 16, bytes
RouterAdvertisementArm(b) ==
    LET cur_hop_limit == U8FromBe(At(b, 4))
        flags == [managed_address_flag |-> BitAnd(Shr8(At(b, 5), 7), 1) = 1,
                  other_config |-> BitAnd(Shr8(At(b, 5), 6), 1) = 1]
        router_lifetime == U16FromBytes(At(b, 6), At(b, 7))
    IN  IF ~SliceInRange(b, 12) THEN ArmPanic
        ELSE IF ~SliceInRange(b, 16) THEN ArmPanic
        ELSE ArmOk([tag |-> "RouterAdvertisement",
                    cur_hop_limit |-> cur_hop_limit,
                    flags |-> flags,
                    router_lifetime |-> router_lifetime,
                    reachable_time |-> U32FromBeBytes(Slice(b, 8, 12)),
                    retrans_timer |-> U32FromBeBytes(Slice(b, 12, 16))], 16)

\* ICMPV6_NEIGHBOR_SOLICITATION => ... : bytes[8..24] panics below 24 bytes
NeighborSolicitationArm(b) ==
    IF ~SliceInRange(b, 24) THEN ArmPanic
    ELSE ArmOk([tag |-> "NeighborSolicitation",
                target_address |-> IPv6AddressTryFrom(Slice(b, 8, 24))], 24)

\* ICMPV6_NEIGHBOR_ADVERTISEMENT => ... : the flags come from byte 4, then
\* bytes[8..24] panics below 24 bytes
NeighborAdvertisementArm(b) ==
    LET flags == [from_router |-> BitAnd(Shr8(At(b, 4), 7), 1) = 1,
                  solicited_flag |-> BitAnd(Shr8(At(b, 4), 6), 1) = 1,
                  override_flag |-> BitAnd(Shr8(At(b, 4), 5), 1) = 1]
    IN  IF ~SliceInRange(b, 24) THEN ArmPanic
        ELSE ArmOk([tag |-> "NeighborAdvertisement",
                    flags |-> flags,
                    target_address |-> IPv6AddressTryFrom(Slice(b, 8, 24))], 24)

\* A Redirect arm that counts only the 36-byte suffix as decoded
RedirectArmSuffixOnly(b) ==
    IF ~SliceInRange(b, 24) \/ ~SliceInRange(b, 40) THEN ArmPanic
    ELSE ArmOk([tag |-> "Redirect",
                target_address |-> IPv6AddressTryFrom(Slice(b, 8, 24)),
                destination_address |-> IPv6AddressTryFrom(Slice(b, 24, 40))], 36)

\* A Redirect arm that takes both addresses from bytes[8..24]
RedirectArmSameSlice(b) ==
    IF ~SliceInRange(b, 24) \/ ~SliceInRange(b, 40) THEN ArmPanic
    ELSE ArmOk([tag |-> "Redirect",
                target_address |-> IPv6AddressTryFrom(Slice(b, 8, 24)),
                destination_address |-> IPv6AddressTryFrom(Slice(b, 8, 24))], 40)

\* ICMPV6_REDIRECT => ... : bytes[8..24] panics below 24 bytes, bytes[24..40]
\* below 40
RedirectArm(b) ==
    IF ~SliceInRange(b, 24) THEN ArmPanic
    ELSE IF ~SliceInRange(b, 40) THEN ArmPanic
    ELSE ArmOk([tag |-> "Redirect",
                target_address |-> IPv6AddressTryFrom(Slice(b, 8, 24)),
                destination_address |-> IPv6AddressTryFrom(Slice(b, 24, 40))], 40)

\* An Unsupported arm that keeps the remainder from offset 8
UnsupportedArmFromEight(b) ==
    ArmOk([tag |-> "Unsupported", unsupported |-> Slice(b, 8, Len(b))], Len(b))

\* _ => ... : bytes[4..] is in range, decoded is the whole buffer
UnsupportedArm(b) ==
    ArmOk([tag |-> "Unsupported", unsupported |-> Slice(b, 4, Len(b))], Len(b))

\* match self.icmp_type { ... }.  ICMPV6_ROUTER_SOLICITATION has no arm and
\* takes the `_` arm.
MatchIcmpType(icmp_type, b) ==
    CASE icmp_type = ICMPV6_ECHO_REQUEST -> EchoRequestArm(b)
      [] icmp_type = ICMPV6_ECHO_REPLY -> EchoReplyArm(b)
      [] icmp_type = ICMPV6_PACKET_TOO_BIG -> PacketTooBigArm(b)
      [] icmp_type \in {ICMPV6_DESTINATION_UNREACHABLE, ICMPV6_TIME_EXCEEDED} -> EmptyArm(b)
      [] icmp_type = ICMPV6_ROUTER_ADVERTISEMENT -> RouterAdvertisementArm(b)
      [] icmp_type = ICMPV6_NEIGHBOR_SOLICITATION -> NeighborSolicitationArm(b)
      [] icmp_type = ICMPV6_NEIGHBOR_ADVERTISEMENT -> NeighborAdvertisementArm(b)
      [] icmp_type = ICMPV6_REDIRECT -> RedirectArm(b)
      [] OTHER -> UnsupportedArm(b)

----------------------------------------------------------------------------
(* decode_bytes *)

\* How a call that has not happened yet "ended"
NoReturn == [kind |-> "none"]

\* A TooShort error with required and available exchanged
ErrTooShortExchanged(b) ==
    [kind |-> "Err", error |-> "TooShort",
     required |-> Len(b), available |-> ICMPV6_HEADER_LENGTH, data |-> HexEncode(b)]

\* Err(Error::TooShort { required, available, data })
ErrTooShort(b) ==
    [kind |-> "Err", error |-> "TooShort",
     required |-> ICMPV6_HEADER_LENGTH, available |-> Len(b), data |-> HexEncode(b)]

\* Ok((None, decoded))
OkNone(decoded) == [kind |-> "Ok", next |-> "None", decoded |-> decoded]

\* The call unwound with a panic
Panicked == [kind |-> "panic"]

\* bytes.len() < ICMPV6_HEADER_LENGTH
HeaderTooShort(b) == Len(b) < ICMPV6_HEADER_LENGTH

\* <ICMPv6 as Layer>::decode_bytes(&mut self, bytes): the instance after the
\* call and how the call ended.  The three header fields are assigned before
\* the match is evaluated, rest_of_header only once the arm has yielded.
DecodeBytes(s, b) ==
    IF HeaderTooShort(b) THEN [self |-> s, ret |-> ErrTooShort(b)]
    ELSE
        LET icmp_type == U8FromBe(At(b, 0))
            code == U8FromBe(At(b, 1))
            checksum == U16FromBytes(At(b, 2), At(b, 3))
            s1 == [s EXCEPT !.icmp_type = icmp_type, !.code = code, !.checksum = checksum]
            arm == MatchIcmpType(icmp_type, b)
        IN  IF arm.panic THEN [self |-> s1, ret |-> Panicked]
            ELSE [self |-> [s1 EXCEPT !.rest_of_header = arm.payload],
                  ret |-> OkNone(arm.decoded)]

----------------------------------------------------------------------------
(* Buffers handed to the decoder *)

\* The ten type codes with a named constant, and three without one
TypeCodes ==
    { ICMPV6_DESTINATION_UNREACHABLE, ICMPV6_PACKET_TOO_BIG, ICMPV6_TIME_EXCEEDED,
      ICMPV6_ECHO_REQUEST, ICMPV6_ECHO_REPLY, ICMPV6_ROUTER_SOLICITATION,
      ICMPV6_ROUTER_ADVERTISEMENT, ICMPV6_NEIGHBOR_SOLICITATION,
      ICMPV6_NEIGHBOR_ADVERTISEMENT, ICMPV6_REDIRECT } \cup {0, 16, 255}

\* Values of byte 4: every combination of bits 7, 6, 5, and two with low bits set
Byte4Values == {0, 32, 64, 96, 128, 160, 192, 224, 31, 255}

\* Values of byte 5: every combination of bits 7, 6, and two with low bits set
Byte5Values == {0, 64, 128, 192, 63, 255}

\* The other bytes: all zero, or a different value at every small offset
Seeds == {0, 37}

Fill(seed, i) == (seed * (i + 1)) % 256

\* The n-byte buffer with type code t at offset 0, x at offset 4, y at offset 5
Buffer(t, n, x, y, seed) ==
    [i \in 1..n |->
        CASE i = 1 -> t
          [] i = 5 -> x
          [] i = 6 -> y
          [] OTHER -> Fill(seed, i - 1)]

\* Buffer lengths of the calls made on a reused instance
ReuseLens == {0, 7, 8, 16, 24, 40}

\* Type codes of the calls made on a reused instance
ReuseTypeCodes ==
    { ICMPV6_PACKET_TOO_BIG, ICMPV6_ECHO_REQUEST, ICMPV6_ROUTER_ADVERTISEMENT,
      ICMPV6_NEIGHBOR_ADVERTISEMENT, ICMPV6_REDIRECT, 16 }

----------------------------------------------------------------------------
(* The state machine *)

\* A decoder fresh from ICMPv6::creator(), no call made yet
Init ==
    /\ self = ICMPv6Default
    /\ bytes = << >>
    /\ ret = NoReturn

\* One call self.decode_bytes(b)
Call(b) ==
    LET r == DecodeBytes(self, b)
    IN  /\ self' = r.self
        /\ bytes' = b
        /\ ret' = r.ret

\* The one call made on a fresh instance
DecodeOnce ==
    /\ ret = NoReturn
    /\ \E t \in TypeCodes, n \in 0..MaxLen, x \in Byte4Values, y \in Byte5Values,
          seed \in Seeds :
            Call(Buffer(t, n, x, y, seed))

Next == DecodeOnce

Spec == Init /\ [][Next]_vars

\* One more call on the same instance; a call that panicked unwinds its caller
DecodeAgain ==
    /\ ret.kind # "panic"
    /\ \E t \in ReuseTypeCodes, n \in ReuseLens, seed \in Seeds :
            Call(Buffer(t, n, 192, 192, seed))

NextReuse == DecodeAgain

SpecReuse == Init /\ [][NextReuse]_vars

----------------------------------------------------------------------------
(* The properties *)

\* A call has been made
Called == ret.kind # "none"

\* The call returned Ok
ReturnedOk == ret.kind = "Ok"

\* The dispatch table of the specification: type code -> header-plus-suffix length
TableTypeCodes == {1, 2, 3, 128, 129, 133, 134, 135, 136, 137}

TableLength(t) ==
    CASE t \in {1, 2, 3, 128, 129, 133} -> 8
      [] t = 134 -> 16
      [] t \in {135, 136} -> 24
      [] t = 137 -> 40

\* The dispatch table of the specification: type code -> payload variant
TableVariant(t) ==
    CASE t \in {1, 3, 133} -> "Empty"
      [] t = 2 -> "PacketTooBig"
      [] t \in {128, 129} -> "Echo"
      [] t = 134 -> "RouterAdvertisement"
      [] t = 135 -> "NeighborSolicitation"
      [] t = 136 -> "NeighborAdvertisement"
      [] t = 137 -> "Redirect"

\* The specification's name for a payload tag of the code
VariantOf(tag) ==
    CASE tag \in {"EchoRequest", "EchoReply"} -> "Echo"
      [] tag = "PacketSizeTooBig" -> "PacketTooBig"
      [] OTHER -> tag

\* The value of a lowercase hex digit
HexDigitValue(c) ==
    CASE c = "0" -> 0 [] c = "1" -> 1 [] c = "2" -> 2 [] c = "3" -> 3
      [] c = "4" -> 4 [] c = "5" -> 5 [] c = "6" -> 6 [] c = "7" -> 7
      [] c = "8" -> 8 [] c = "9" -> 9 [] c = "a" -> 10 [] c = "b" -> 11
      [] c = "c" -> 12 [] c = "d" -> 13 [] c = "e" -> 14 [] c = "f" -> 15
      [] OTHER -> 0 - 1

\* C1: a call with a buffer of 0..7 bytes returns Err(TooShort) with
\* required = 8, available = the buffer's length and data = the buffer's hex
\* dump (two lowercase digits per byte), whatever byte 0 is.
C1_TooShort ==
    (Called /\ Len(bytes) < 8) =>
        /\ ret.kind = "Err"
        /\ ret.error = "TooShort"
        /\ ret.required = 8
        /\ ret.available = Len(bytes)
        /\ Len(ret.data) = 2 * Len(bytes)
        /\ \A i \in 1..Len(bytes) :
              16 * HexDigitValue(ret.data[2 * i - 1]) + HexDigitValue(ret.data[2 * i])
                  = bytes[i]

\* C1 witness: a 7-byte buffer with the unrecognized type code 16 and a byte
\* above 0x9f was rejected as TooShort.
C1_Witness ==
    /\ Len(bytes) = 7
    /\ bytes[1] = 16
    /\ bytes[5] = 192
    /\ ret.kind = "Err"

\* C2: for every type code of the dispatch table, a buffer of exactly the
\* table's header-plus-suffix length decodes with Ok and bytes-consumed equal
\* to that length.
C2_ExactLength ==
    (Called /\ Len(bytes) >= 1) =>
        ((bytes[1] \in TableTypeCodes /\ Len(bytes) = TableLength(bytes[1])) =>
            /\ ReturnedOk
            /\ ret.decoded = TableLength(bytes[1]))

\* C2 witness: a Redirect of exactly 40 bytes was decoded.
C2_Witness ==
    /\ Len(bytes) = 40
    /\ bytes[1] = 137
    /\ ReturnedOk
    /\ ret.decoded = 40

\* C3 (as claimed): for every type code of the dispatch table and every buffer
\* at least as long as the table's length, the payload is the table's variant
\* and bytes-consumed is the table's length; Unsupported only arises outside
\* the table.
C3_TableVariantAndLength ==
    (Called /\ Len(bytes) >= 1) =>
        /\ (bytes[1] \in TableTypeCodes /\ Len(bytes) >= TableLength(bytes[1])) =>
              /\ ReturnedOk
              /\ VariantOf(self.rest_of_header.tag) = TableVariant(bytes[1])
              /\ ret.decoded = TableLength(bytes[1])
        /\ (ReturnedOk /\ self.rest_of_header.tag = "Unsupported") =>
              bytes[1] \notin TableTypeCodes

\* C4: for a buffer of at least 8 bytes whose byte 0 is outside the dispatch
\* table, the call returns Ok, the payload is Unsupported holding exactly the
\* bytes from offset 4 to the end, and bytes-consumed is the buffer's length.
C4_Unsupported ==
    (Called /\ Len(bytes) >= 8 /\ bytes[1] \notin TableTypeCodes) =>
        /\ ReturnedOk
        /\ self.rest_of_header.tag = "Unsupported"
        /\ Len(self.rest_of_header.unsupported) = Len(bytes) - 4
        /\ \A i \in 1..(Len(bytes) - 4) :
              self.rest_of_header.unsupported[i] = bytes[i + 4]
        /\ ret.decoded = Len(bytes)
        /\ ret.next = "None"

\* C4 witness: a 41-byte buffer of the unknown type 16 was decoded, with a
\* remainder whose bytes differ.
C4_Witness ==
    /\ Len(bytes) = 41
    /\ bytes[1] = 16
    /\ ReturnedOk
    /\ self.rest_of_header.tag = "Unsupported"
    /\ self.rest_of_header.unsupported[1] # self.rest_of_header.unsupported[3]

\* C5 (as claimed): every call ends with Err(TooShort) when the buffer is
\* shorter than 8 bytes and with Ok otherwise.
C5_OnlyTooShortOrOk ==
    Called =>
        IF Len(bytes) < 8 THEN ret.kind = "Err" ELSE ret.kind = "Ok"

\* What a fresh instance holds, and returns, after decoding buffer b
FreshDecode(b) == DecodeBytes(ICMPv6Default, b)

\* Bit k of byte v is set, by magnitude: the part of v below 2^(k+1) reaches 2^k
BitSet(v, k) == (v % (2 ^ (k + 1))) >= 2 ^ k

\* Byte values written over a byte that should not matter
ProbeBytes == {0, 1, 85, 170, 254, 255}

\* C6: for a buffer of at least 8 bytes with byte 0 = 128 or 129, type = byte 0,
\* code = byte 1, checksum = 256*byte2 + byte3, the payload is the Echo variant
\* with identifier = 256*byte4 + byte5 and sequence_number = 256*byte6 + byte7,
\* bytes-consumed = 8; and the same buffer with the other echo type code in
\* byte 0 gives a result that differs in the type field only.
C6_Echo ==
    (Called /\ Len(bytes) >= 8 /\ bytes[1] \in {128, 129}) =>
        /\ ReturnedOk
        /\ ret.decoded = 8
        /\ ret.next = "None"
        /\ self.icmp_type = bytes[1]
        /\ self.code = bytes[2]
        /\ self.checksum = 256 * bytes[3] + bytes[4]
        /\ VariantOf(self.rest_of_header.tag) = "Echo"
        /\ self.rest_of_header.identifier = 256 * bytes[5] + bytes[6]
        /\ self.rest_of_header.sequence_number = 256 * bytes[7] + bytes[8]
        /\ LET other == 257 - bytes[1]
               twin == FreshDecode([bytes EXCEPT ![1] = other])
           IN  /\ twin.ret = ret
               /\ twin.self = [self EXCEPT !.icmp_type = other]

\* C6 witness: an Echo Request with a non-zero checksum whose identifier has
\* different high and low bytes was decoded.
C6_Witness ==
    /\ Len(bytes) >= 8
    /\ bytes[1] = 128
    /\ ReturnedOk
    /\ self.checksum = 256 * 111 + 148
    /\ self.rest_of_header.identifier = 256 * 192 + 64

\* C7: in a decoded Router Advertisement managed_address_flag is bit 7 and
\* other_config bit 6 of byte 5, and bits 5..0 of byte 5 change neither; in a
\* decoded Neighbor Advertisement from_router, solicited_flag and
\* override_flag are bits 7, 6 and 5 of byte 4, and bits 4..0 change none.
C7_Flags ==
    /\ (ReturnedOk /\ bytes[1] = 134) =>
          /\ self.rest_of_header.tag = "RouterAdvertisement"
          /\ self.rest_of_header.flags.managed_address_flag = BitSet(bytes[6], 7)
          /\ self.rest_of_header.flags.other_config = BitSet(bytes[6], 6)
          /\ (bytes[6] = 192 =>
                /\ self.rest_of_header.flags.managed_address_flag
                /\ self.rest_of_header.flags.other_config)
          /\ (bytes[6] = 0 =>
                /\ ~self.rest_of_header.flags.managed_address_flag
                /\ ~self.rest_of_header.flags.other_config)
          /\ \A low \in 0..63 :
                FreshDecode([bytes EXCEPT ![6] = 64 * (bytes[6] \div 64) + low])
                    .self.rest_of_header.flags = self.rest_of_header.flags
    /\ (ReturnedOk /\ bytes[1] = 136) =>
          /\ self.rest_of_header.tag = "NeighborAdvertisement"
          /\ self.rest_of_header.flags.from_router = BitSet(bytes[5], 7)
          /\ self.rest_of_header.flags.solicited_flag = BitSet(bytes[5], 6)
          /\ self.rest_of_header.flags.override_flag = BitSet(bytes[5], 5)
          /\ \A low \in 0..31 :
                FreshDecode([bytes EXCEPT ![5] = 32 * (bytes[5] \div 32) + low])
                    .self.rest_of_header.flags = self.rest_of_header.flags

\* C7 witness: a Router Advertisement whose byte 5 has bit 7 set and bit 6
\* clear, next to a byte 4 with bit 7 clear and bit 6 set, was decoded.
C7_Witness ==
    /\ ReturnedOk
    /\ bytes[1] = 134
    /\ bytes[6] = 128
    /\ bytes[5] = 64
    /\ self.rest_of_header.flags.managed_address_flag
    /\ ~self.rest_of_header.flags.other_config

\* C8: in a decoded type 135, 136 or 137 message target_address is bytes 8..23
\* in order, and for 137 destination_address is bytes 24..39; the reserved
\* bytes 4..7 change no address (for 135 and 137 they change nothing at all),
\* and the bytes after the type's length change nothing.
C8_Addresses ==
    (ReturnedOk /\ bytes[1] \in {135, 136, 137}) =>
        /\ Len(self.rest_of_header.target_address) = 16
        /\ \A i \in 1..16 : self.rest_of_header.target_address[i] = bytes[8 + i]
        /\ (bytes[1] = 137 =>
              /\ Len(self.rest_of_header.destination_address) = 16
              /\ \A i \in 1..16 :
                    self.rest_of_header.destination_address[i] = bytes[24 + i])
        /\ \A i \in 5..8, v \in ProbeBytes :
              LET probe == FreshDecode([bytes EXCEPT ![i] = v])
              IN  /\ probe.ret = ret
                  /\ probe.self.rest_of_header.target_address
                        = self.rest_of_header.target_address
                  /\ (bytes[1] = 137 =>
                        probe.self.rest_of_header.destination_address
                            = self.rest_of_header.destination_address)
                  /\ (bytes[1] \in {135, 137} => probe.self = self)
        /\ FreshDecode(SubSeq(bytes, 1, TableLength(bytes[1]))) = [self |-> self, ret |-> ret]
        /\ \A i \in (TableLength(bytes[1]) + 1)..Len(bytes), v \in ProbeBytes :
              FreshDecode([bytes EXCEPT ![i] = v]) = [self |-> self, ret |-> ret]

\* C8 witness: a Redirect with a trailing byte, non-zero reserved bytes and two
\* different addresses was decoded.
C8_Witness ==
    /\ ReturnedOk
    /\ bytes[1] = 137
    /\ Len(bytes) = 41
    /\ bytes[7] # 0
    /\ self.rest_of_header.target_address # self.rest_of_header.destination_address
    /\ self.rest_of_header.destination_address[16] = bytes[40]

\* C10 (as claimed): on one instance, a call that returns Ok leaves the four
\* fields as a fresh instance would hold them after decoding that buffer, and
\* every other call leaves the four fields unchanged; so at every point the
\* fields are those of the most recent buffer decoded with Ok, or the defaults.
C10_FieldsFollowLastOk ==
    [][IF ret'.kind = "Ok"
       THEN self' = FreshDecode(bytes').self
       ELSE self' = self]_vars

====
